---- MODULE Spec2Model ----
(***************************************************************************)
(* yad2_parser.py: process_directory walks a directory listing, extracts   *)
(* the embedded listings of every matching HTML file and hands each        *)
(* non-empty category to process_vehicle_data, which appends one CSV row   *)
(* per normalizable record to <dirname>_summary.csv.                       *)
(*                                                                         *)
(* Abstractions.  A file name is the pair of facts the filter tests.  A    *)
(* listing record keeps the set of its top-level keys and the facts the    *)
(* row-building steps depend on.  A production date is kept as the number  *)
(* of whole days between the first of the production month and now.        *)
(* Decimal columns are kept in hundredths.  A CSV line keeps the columns   *)
(* the properties below talk about.  Standard output is kept as what was   *)
(* printed where: the debug banners, the per-file errors, the count        *)
(* reported by the call in progress.                                       *)
(***************************************************************************)
EXTENDS Integers, Sequences, FiniteSets, TLC

VARIABLES
    \* process_directory
    dir,            \* os.listdir(directory_path): the file names, in listing order
    fi,             \* position of the for loop in dir (0: before the first name)
    debug,          \* the local debug of process_directory
    run_debug,      \* the debug argument process_directory was called with
    listings_data,  \* the category lists of the file being processed
    attempted,      \* positions of the files that were opened for reading
    failed,         \* positions of the files with an "Error processing" line
    completed,      \* positions of the files whose try block ran to its end
    first_batch,    \* <<file, category>> of the first list handed over, or <<>>
    expected,       \* rows owed by the files that were processed to their end
    init_exists,    \* whether the output file existed when the run started
    init_lines,     \* its lines then
    items_read,     \* records of the files read so far
    \* the output file
    exists,         \* os.path.exists(output_path)
    lines,          \* its lines
    \* process_vehicle_data
    json_list, listing_type, mode, pvd_debug,   \* the arguments
    idx,            \* records the for loop has gone through
    processed_count,
    ad_number,      \* the local ad_number, Unbound before its first assignment
    last_outcome,   \* how the last iteration ended
    base_len,       \* lines of the output file when the loop started
    reported,       \* <<n>> once "Successfully processed n" is printed, else <<>>
    introspected,   \* the debug banners printed: <<file, category>> each
    ret,            \* where the call returns to
    pc

drv == <<dir, fi, debug, run_debug, listings_data, attempted, failed,
         completed, first_batch, expected, init_exists, init_lines, items_read>>
fs == <<exists, lines>>
args == <<json_list, listing_type, mode, pvd_debug, ret>>
locals == <<idx, processed_count, ad_number, last_outcome, base_len, reported>>
vars == <<drv, fs, args, locals, introspected, pc>>

\* ------------------------------------------------------------------ bounds
MaxFiles == 2      \* entries returned by os.listdir
MaxItems == 2      \* records of the files of one run, over their categories
MaxList == 2       \* records of the list of a direct process_vehicle_data call
MaxKm == 3         \* |km| of the records of the km_per_year runs
MaxDays == 3       \* elapsed days of the records of the km_per_year runs

\* ------------------------------------------------------------- sequences
SeqsUpTo(S, n) == UNION {[1..k -> S] : k \in 0..n}

IsPrefix(s, t) == Len(s) <= Len(t) /\ \A i \in 1..Len(s) : s[i] = t[i]

\* --------------------------------------------------------- listing records
Unbound == "<unbound>"

TopKeys == {"orderId", "token", "price", "manufacturer", "model", "subModel",
            "vehicleDates", "km"}

required_fields == {"manufacturer", "model", "subModel", "vehicleDates", "token"}

\* A record with every key, a price, a production date a year back and a km.
BaseItem(tok) ==
    [isMap |-> TRUE, keys |-> TopKeys \ {"orderId"}, price |-> 50, orderId |-> "o",
     token |-> tok, vd |-> "ok", texts |-> TRUE, days |-> 366, km |-> 1000]

\* A list element that is no mapping (a JSON null, number, string or list).
NullItem ==
    [isMap |-> FALSE, keys |-> {}, price |-> 0, orderId |-> "", token |-> "",
     vd |-> "ok", texts |-> FALSE, days |-> 0, km |-> 0]

Without(item, k) == [item EXCEPT !.keys = @ \ {k}]

DriverItems == { BaseItem("t1"), BaseItem("t2"), NullItem }

RichItems ==
    { BaseItem("t1"),
      [BaseItem("t2") EXCEPT !.keys = TopKeys],
      [BaseItem("t3") EXCEPT !.price = 0],
      [BaseItem("t4") EXCEPT !.vd = "no_year"],
      [BaseItem("t5") EXCEPT !.vd = "bad_year"],
      [BaseItem("t6") EXCEPT !.texts = FALSE],
      NullItem }
    \cup { Without(BaseItem("t7"), k) : k \in required_fields \cup {"price"} }

KmItems ==
    { [BaseItem("t1") EXCEPT !.km = k, !.days = d] :
        k \in (0 - MaxKm)..MaxKm, d \in (0 - 1)..MaxDays }
    \cup { [Without(BaseItem("t1"), "km") EXCEPT !.days = d] : d \in (0 - 1)..MaxDays }

\* ------------------------------------------------------ derived quantities
DaysPerYearX100 == 36525

\* n / d rounded to the nearest integer, ties to even (Python's round), d > 0.
RoundHalfEven(n, d) ==
    LET q == n \div d
        r == n % d
    IN  IF 2 * r < d THEN q
        ELSE IF 2 * r > d THEN q + 1
        ELSE IF q % 2 = 0 THEN q ELSE q + 1

\* years_since_production > 0, the years being days / 365.25
calculate_years_since_production_positive(days) == days > 0

\* 'number_of_years': round(years_since_production, 2), in hundredths
NumberOfYears(days) == RoundHalfEven(days * 10000, DaysPerYearX100)

\* item.get('km', 0)
Km(item) == IF "km" \in item.keys THEN item.km ELSE 0

\* km_per_year, in hundredths: km / (days / 365.25) rounded to 2 decimals, or 0
KmPerYearNoKmGuard(km, days) ==
    IF calculate_years_since_production_positive(days)
    THEN RoundHalfEven(km * DaysPerYearX100, days)
    ELSE 0

KmPerYear(km, days) ==
    IF calculate_years_since_production_positive(days) /\ km > 0
    THEN RoundHalfEven(km * DaysPerYearX100, days)
    ELSE 0

\* item.get('orderId', item.get('token', 'unknown'))
AdNumber(item) ==
    IF "orderId" \in item.keys THEN item.orderId
    ELSE IF "token" \in item.keys THEN item.token
    ELSE "unknown"

\* 'price' not in item or item['price'] == 0
PriceSkipAbsentOnly(item) == "price" \notin item.keys

PriceSkip(item) == "price" \notin item.keys \/ item.price = 0

\* not all(field in item for field in required_fields)
RequiredSkip(item) == ~(required_fields \subseteq item.keys)

\* How the body of the try ends for one record: a row, a continue, or the
\* exception raised by the first step that fails.
Outcome(item) ==
    IF ~item.isMap THEN "Exception"                 \* item.get: AttributeError
    ELSE IF PriceSkip(item) THEN "skip"
    ELSE IF RequiredSkip(item) THEN "skip"
    ELSE IF item.vd = "no_year" THEN "KeyError"      \* ['yearOfProduction']
    ELSE IF item.vd = "bad_year" THEN "Exception"    \* datetime(year, month, 1)
    ELSE IF ~item.texts THEN "KeyError"              \* ['subModel']['text']
    ELSE "row"

\* The except clauses of the loop body.
CaughtKeyErrorOnly(exc) == exc = "KeyError"

Caught(exc) == exc \in {"KeyError", "Exception"}

\* ------------------------------------------------------------ the CSV file
Header ==
    [t |-> "header", adNumber |-> "", price |-> 0, listingType |-> "",
     productionDate |-> 0, km |-> 0, number_of_years |-> 0, km_per_year |-> 0,
     link |-> ""]

OldLine == [Header EXCEPT !.t = "old"]

Row(item, cat) ==
    [t |-> "row", adNumber |-> AdNumber(item), price |-> item.price,
     listingType |-> cat, productionDate |-> item.days, km |-> Km(item),
     number_of_years |-> NumberOfYears(item.days),
     km_per_year |-> KmPerYear(Km(item), item.days), link |-> item.token]

\* mode = 'a' if os.path.exists(output_path) else 'w'
ChooseModeAlwaysW(ex) == "w"

ChooseMode(ex) == IF ex THEN "a" ELSE "w"

\* open(output_file, mode) and the writeheader of mode 'w'
OpenedLinesAlwaysHeader(m, ex, ls) ==
    IF m = "w" THEN <<Header>> ELSE IF ex THEN Append(ls, Header) ELSE <<Header>>

OpenedLines(m, ex, ls) ==
    IF m = "w" THEN <<Header>> ELSE IF ex THEN ls ELSE <<>>

\* writer.writerow(row)
WriteRowDedup(ls, row) ==
    IF \E i \in 1..Len(ls) : ls[i] = row THEN ls ELSE Append(ls, row)

WriteRow(ls, row) == Append(ls, row)

\* if processed_count > 0: print(...)
ReportedCountAlways(c) == <<c>>

ReportedCount(c) == IF c > 0 THEN <<c>> ELSE <<>>

\* ------------------------------------------------------ directory and files
FileNames == [html : BOOLEAN, today : BOOLEAN]

\* filename.endswith('.html') and today in filename
MatchesEither(f) == f.html \/ f.today

Matches(f) == f.html /\ f.today

Categories == <<"commercial", "private", "solo", "platinum">>

EmptyData == [c \in {"commercial", "private", "solo", "platinum"} |-> <<>>]

\* The listings of a file: its records in category order, each with the
\* position of its category.
FlatListings ==
    { f \in SeqsUpTo((1..4) \X DriverItems, MaxItems) :
        \A i \in 1..(Len(f) - 1) : f[i][1] <= f[i + 1][1] }

ItemsOf(f, c) ==
    LET s == SelectSeq(f, LAMBDA p : Categories[p[1]] = c)
    IN  [i \in 1..Len(s) |-> s[i][2]]

DataOf(f) == [c \in {"commercial", "private", "solo", "platinum"} |-> ItemsOf(f, c)]

Size(data) ==
    Len(data["commercial"]) + Len(data["private"]) + Len(data["solo"])
    + Len(data["platinum"])

\* What file.read() can return: a page without the script tag, with a script
\* tag that is no JSON, with JSON that lacks the path to the listings, or
\* with listings.
Htmls ==
    { [block |-> FALSE, json |-> FALSE, path |-> FALSE, data |-> EmptyData],
      [block |-> TRUE, json |-> FALSE, path |-> FALSE, data |-> EmptyData],
      [block |-> TRUE, json |-> TRUE, path |-> FALSE, data |-> EmptyData] }
    \cup { [block |-> TRUE, json |-> TRUE, path |-> TRUE, data |-> DataOf(f)] :
             f \in FlatListings }

extract_json_from_html(html) ==
    IF ~html.block THEN "ValueError"
    ELSE IF ~html.json THEN "JSONDecodeError"
    ELSE "ok"

\* data['props']['pageProps']['dehydratedState']['queries'][0]['state']['data']
Navigate(html) == IF html.path THEN "ok" ELSE "KeyError"

\* ------------------------------------------------------------------- Init
InitialFiles ==
    { <<FALSE, <<>>>>, <<TRUE, <<Header, OldLine>>>> }

NoCall ==
    /\ json_list = <<>> /\ listing_type = "" /\ mode = "w" /\ pvd_debug = FALSE
    /\ ret = "" /\ idx = 0 /\ processed_count = 0 /\ ad_number = Unbound
    /\ last_outcome = "none" /\ base_len = 0 /\ reported = <<>>

Init ==
    /\ dir \in SeqsUpTo(FileNames, MaxFiles)
    /\ fi = 0
    /\ debug \in BOOLEAN
    /\ run_debug = debug
    /\ listings_data = EmptyData
    /\ attempted = {} /\ failed = {} /\ completed = {}
    /\ first_batch = <<>> /\ expected = <<>>
    /\ \E f \in InitialFiles : exists = f[1] /\ lines = f[2]
    /\ init_exists = exists /\ init_lines = lines
    /\ items_read = 0
    /\ NoCall
    /\ introspected = <<>>
    /\ pc = "loop"

\* A direct call process_vehicle_data(json_list, listing_type, output_file, mode, debug)
InitCall(items, n) ==
    /\ dir = <<>> /\ fi = 0 /\ debug = FALSE /\ run_debug = FALSE
    /\ listings_data = EmptyData
    /\ attempted = {} /\ failed = {} /\ completed = {}
    /\ first_batch = <<>> /\ expected = <<>>
    /\ \E f \in InitialFiles : exists = f[1] /\ lines = f[2]
    /\ init_exists = exists /\ init_lines = lines
    /\ items_read = 0
    /\ json_list \in SeqsUpTo(items, n)
    /\ listing_type \in {"commercial", "private"}
    /\ mode \in {"w", "a"}
    /\ pvd_debug \in BOOLEAN
    /\ ret = "returned"
    /\ idx = 0 /\ processed_count = 0 /\ ad_number = Unbound
    /\ last_outcome = "none" /\ base_len = 0 /\ reported = <<>>
    /\ introspected = <<>>
    /\ pc = "pvd_entry"

InitPVD == InitCall(RichItems, MaxList)

InitKm == InitCall(KmItems, 1)

\* ------------------------------------------------- process_vehicle_data
\* Where an exception that leaves process_vehicle_data goes: to the except
\* clause of process_directory, or out of a direct call.
RaiseTarget == IF ret = "returned" THEN "uncaught" ELSE "except"

\* if debug and json_list: the banner, then item.keys() of the first record
Introspect ==
    /\ pc = "pvd_entry"
    /\ LET inspect == pvd_debug /\ json_list # <<>>
       IN  /\ introspected' = IF inspect
                              THEN Append(introspected, <<fi, listing_type>>)
                              ELSE introspected
           /\ pc' = IF inspect /\ ~json_list[1].isMap THEN RaiseTarget ELSE "pvd_open"
    /\ UNCHANGED <<drv, fs, args, locals>>

\* with open(output_file, mode, ...): writeheader in mode 'w'; processed_count = 0
OpenOutput ==
    /\ pc = "pvd_open"
    /\ exists' = TRUE
    /\ lines' = OpenedLines(mode, exists, lines)
    /\ base_len' = Len(lines')
    /\ processed_count' = 0
    /\ pc' = "pvd_loop"
    /\ UNCHANGED <<drv, args, idx, ad_number, last_outcome, reported, introspected>>

\* One iteration of for item in json_list, its except clauses included.
ProcessItem ==
    /\ pc = "pvd_loop"
    /\ idx < Len(json_list)
    /\ LET item == json_list[idx + 1]
           out == Outcome(item)
           adn == IF item.isMap THEN AdNumber(item) ELSE ad_number
           raised == out \in {"KeyError", "Exception"}
           \* the handler prints ad_number when debug is on
           escapes == raised /\ (~Caught(out) \/ (pvd_debug /\ adn = Unbound))
       IN  /\ idx' = idx + 1
           /\ ad_number' = adn
           /\ last_outcome' = out
           /\ lines' = IF out = "row" THEN WriteRow(lines, Row(item, listing_type))
                       ELSE lines
           /\ processed_count' = IF out = "row" THEN processed_count + 1
                                 ELSE processed_count
           /\ pc' = IF escapes THEN RaiseTarget ELSE "pvd_loop"
    /\ UNCHANGED <<drv, exists, args, base_len, reported, introspected>>

\* The end of the loop: the report of processed_count, and the return.
Report ==
    /\ pc = "pvd_loop"
    /\ idx = Len(json_list)
    /\ reported' = ReportedCount(processed_count)
    /\ pc' = ret
    /\ UNCHANGED <<drv, fs, args, idx, processed_count, ad_number, last_outcome,
                   base_len, introspected>>

\* ---------------------------------------------------- process_directory
ResetCall ==
    /\ json_list' = <<>> /\ listing_type' = "" /\ mode' = "w" /\ pvd_debug' = FALSE
    /\ ret' = "" /\ idx' = 0 /\ processed_count' = 0 /\ ad_number' = Unbound
    /\ last_outcome' = "none" /\ base_len' = 0 /\ reported' = <<>>

\* for filename in os.listdir(directory_path): the filter of the next name
NextFile ==
    /\ pc = "loop"
    /\ fi < Len(dir)
    /\ fi' = fi + 1
    /\ pc' = IF Matches(dir[fi + 1]) THEN "read" ELSE "loop"
    /\ UNCHANGED <<dir, completed, debug, run_debug, listings_data, attempted, failed,
                   first_batch, expected, init_exists, init_lines, items_read, fs, args,
                   locals, introspected>>

\* open, read, extract_json_from_html and the navigation to the listings
ReadFile ==
    /\ pc = "read"
    /\ \E html \in Htmls :
         LET ok == extract_json_from_html(html) = "ok" /\ Navigate(html) = "ok"
         IN  /\ items_read + Size(html.data) <= MaxItems
             /\ items_read' = items_read + Size(html.data)
             /\ listings_data' = IF ok THEN html.data ELSE listings_data
             /\ pc' = IF ok THEN "commercial" ELSE "except"
    /\ attempted' = attempted \cup {fi}
    /\ UNCHANGED <<dir, completed, fi, debug, run_debug, failed, first_batch, expected,
                   init_exists, init_lines, fs, args, locals, introspected>>

\* One of the four category blocks: the list, and the call when it is not empty.
CategoryBlock(cat, dbg, after, next) ==
    /\ IF listings_data[cat] # <<>>
       THEN /\ json_list' = listings_data[cat]
            /\ listing_type' = cat
            /\ mode' = ChooseMode(exists)
            /\ pvd_debug' = dbg
            /\ ret' = after
            /\ idx' = 0 /\ processed_count' = 0 /\ ad_number' = Unbound
            /\ last_outcome' = "none" /\ base_len' = 0 /\ reported' = <<>>
            /\ first_batch' = IF first_batch = <<>> THEN <<fi, cat>> ELSE first_batch
            /\ pc' = "pvd_entry"
       ELSE /\ pc' = next
            /\ UNCHANGED <<args, locals, first_batch>>
    /\ UNCHANGED <<dir, completed, fi, debug, run_debug, listings_data, attempted, failed,
                   expected, init_exists, init_lines, items_read, fs, introspected>>

ProcessCommercial ==
    pc = "commercial" /\ CategoryBlock("commercial", debug, "commercial_ret", "private")

\* debug = False  # Only debug first batch
AfterCommercial ==
    /\ pc = "commercial_ret"
    /\ debug' = FALSE
    /\ pc' = "private"
    /\ UNCHANGED <<dir, completed, fi, run_debug, listings_data, attempted, failed,
                   first_batch, expected, init_exists, init_lines, items_read, fs, args,
                   locals, introspected>>

ProcessPrivate == pc = "private" /\ CategoryBlock("private", FALSE, "solo", "solo")

ProcessSolo == pc = "solo" /\ CategoryBlock("solo", FALSE, "platinum", "platinum")

ProcessPlatinum ==
    pc = "platinum" /\ CategoryBlock("platinum", FALSE, "file_end", "file_end")

\* The rows a file owes: per category in the fixed order, per record in
\* array order, one row for each record that has a nonzero price, the five
\* required fields and nothing that makes a step fail.
Normalizable(item) ==
    /\ item.isMap
    /\ "price" \in item.keys /\ item.price # 0
    /\ required_fields \subseteq item.keys
    /\ item.vd = "ok" /\ item.texts

RowsOf(list, cat) ==
    LET s == SelectSeq(list, Normalizable)
    IN  [i \in 1..Len(s) |-> Row(s[i], cat)]

FileRows(data) ==
    RowsOf(data["commercial"], "commercial") \o RowsOf(data["private"], "private")
    \o RowsOf(data["solo"], "solo") \o RowsOf(data["platinum"], "platinum")

\* The end of the with block of a file that raised nothing.
FileEnd ==
    /\ pc = "file_end"
    /\ expected' = expected \o FileRows(listings_data)
    /\ completed' = completed \cup {fi}
    /\ listings_data' = EmptyData
    /\ ResetCall
    /\ pc' = "loop"
    /\ UNCHANGED <<dir, fi, debug, run_debug, attempted, failed, first_batch,
                   init_exists, init_lines, items_read, fs, introspected>>

\* except Exception as e: print("Error processing ...")
FileExceptAbort ==
    /\ pc = "except"
    /\ pc' = "uncaught"
    /\ UNCHANGED <<drv, fs, args, locals, introspected>>

FileExcept ==
    /\ pc = "except"
    /\ failed' = failed \cup {fi}
    /\ listings_data' = EmptyData
    /\ ResetCall
    /\ pc' = "loop"
    /\ UNCHANGED <<dir, completed, fi, debug, run_debug, attempted, first_batch, expected,
                   init_exists, init_lines, items_read, fs, introspected>>

\* print("Output saved to: ...")
Finish ==
    /\ pc = "loop"
    /\ fi = Len(dir)
    /\ pc' = "done"
    /\ UNCHANGED <<drv, fs, args, locals, introspected>>

\* ---------------------------------------------------------- specifications
NextPVD == Introspect \/ OpenOutput \/ ProcessItem \/ Report

Next ==
    \/ NextFile \/ ReadFile
    \/ ProcessCommercial \/ AfterCommercial
    \/ ProcessPrivate \/ ProcessSolo \/ ProcessPlatinum
    \/ FileEnd \/ FileExcept \/ Finish
    \/ Introspect \/ OpenOutput \/ ProcessItem \/ Report

\* process_directory on any directory
Spec == Init /\ [][Next]_vars

\* process_vehicle_data called on any list
SpecPVD == InitPVD /\ [][NextPVD]_vars

\* process_vehicle_data called on one record of any km and age
SpecKm == InitKm /\ [][NextPVD]_vars

\* ------------------------------------------------------------ properties
RowsAppended == Len(lines) - base_len

RowLines == { i \in 1..Len(lines) : lines[i].t = "row" }

HeaderLines == { i \in 1..Len(lines) : lines[i].t = "header" }

\* no name both ends in .html and contains today's date token
NoFileMatches == \A i \in 1..Len(dir) : ~(dir[i].html /\ dir[i].today)

\* C1: a failure while handling one file never aborts the directory batch:
\* no exception leaves process_directory, every matching file the loop has
\* passed was opened (after a failed one too), the run is never stuck before
\* its final report, and at the report every matching file was opened and
\* either failed or ran to its end.
C1_FailureNeverAbortsBatch ==
    /\ pc # "uncaught"
    /\ pc = "done" \/ ENABLED Next
    /\ \A i \in 1..Len(dir) :
         (dir[i].html /\ dir[i].today /\ (i < fi \/ pc = "done")) =>
             (i \in attempted /\ i \in failed \cup completed)
    /\ failed \cap completed = {}

C1_Witness ==
    /\ pc = "done"
    /\ \E i \in failed : \E j \in completed : i < j
    /\ Len(lines) > Len(init_lines) + 1

\* C2: in process_vehicle_data, an iteration in which a step of the row
\* building raises (debug on or off, first record or later) writes no row,
\* counts nothing and leaves the call in its loop, and a call that returns
\* has gone through every record of its list.
C2_RecordFailureContained ==
    [][ /\ (pc = "pvd_loop" /\ idx' = idx + 1
              /\ last_outcome' \in {"KeyError", "Exception"})
           => (lines' = lines /\ processed_count' = processed_count
                 /\ pc' = "pvd_loop")
        /\ (pc' = "returned" => idx' = Len(json_list')) ]_vars

C2_Witness ==
    /\ pc = "returned"
    /\ pvd_debug
    /\ Len(json_list) = 2
    /\ Outcome(json_list[1]) = "KeyError"
    /\ Outcome(json_list[2]) = "row"
    /\ RowsAppended = 1

\* C3: an iteration of process_vehicle_data writes a row only for a record
\* that has a nonzero price and the five required fields; for a record whose
\* price is absent or 0 or that lacks a required field it writes no row and
\* does not count, and when that record is a mapping the iteration ends by
\* the continue, with no exception.
C3_RowOnlyForPricedCompleteRecords ==
    [][ (pc = "pvd_loop" /\ idx' = idx + 1) =>
          LET item == json_list[idx']
              lacking == \/ "price" \notin item.keys
                         \/ item.price = 0
                         \/ ~(required_fields \subseteq item.keys)
          IN  /\ (lines' # lines \/ processed_count' # processed_count) => ~lacking
              /\ lacking => (lines' = lines /\ processed_count' = processed_count
                               /\ pc' = "pvd_loop")
              /\ (lacking /\ item.isMap) => last_outcome' = "skip" ]_vars

C3_Witness ==
    /\ pc = "returned"
    /\ Len(json_list) = 2
    /\ json_list[1].isMap /\ "price" \in json_list[1].keys /\ json_list[1].price = 0
    /\ Outcome(json_list[2]) = "row"
    /\ processed_count = 1 /\ RowsAppended = 1

\* C4: in a run of process_directory that started with no output file, the
\* output file, once it exists, has the header as its first line and nowhere
\* else.
C4_HeaderExactlyOnce ==
    (~init_exists /\ exists) => (Len(lines) >= 1 /\ HeaderLines = {1})

C4_Witness ==
    /\ pc = "done"
    /\ ~init_exists
    /\ Cardinality(completed) = 2
    /\ \E i, j \in RowLines : lines[i].listingType # lines[j].listingType

\* C5: between files and at the end of the run the output file holds what it
\* held at the start (or the header, when the run created it) followed by
\* the rows of the normalizable records of the files processed to their end:
\* files in listing order, categories in the order commercial, private, solo,
\* platinum, records in array order, a repeated record repeated.
C5_RowsInEncounterOrder ==
    pc \in {"loop", "done"} =>
        lines = (IF init_exists THEN init_lines
                 ELSE IF exists THEN <<Header>> ELSE <<>>) \o expected

C5_Witness ==
    /\ pc = "done"
    /\ Len(expected) = 2
    /\ expected[1] = expected[2]
    /\ Cardinality(RowLines) = 2

\* C6 as stated: for every written row km_per_year is 0 whenever km = 0 or
\* the elapsed years are <= 0, and km / years rounded to 2 decimals in every
\* other case.
C6_Original ==
    \A i \in RowLines :
        LET r == lines[i]
        IN  IF r.km = 0 \/ r.productionDate <= 0
            THEN r.km_per_year = 0
            ELSE r.km_per_year = RoundHalfEven(r.km * DaysPerYearX100, r.productionDate)

\* C6 as amended: for every written row km_per_year is 0 whenever km <= 0 or
\* the elapsed years (before their rounding for output) are <= 0, and
\* km / years rounded to 2 decimals in every other case.
C6_KmPerYear ==
    \A i \in RowLines :
        LET r == lines[i]
        IN  IF r.km <= 0 \/ r.productionDate <= 0
            THEN r.km_per_year = 0
            ELSE r.km_per_year = RoundHalfEven(r.km * DaysPerYearX100, r.productionDate)

C6_Witness ==
    /\ pc = "returned"
    /\ \E i \in RowLines :
         lines[i].km < 0 /\ lines[i].productionDate > 0 /\ lines[i].km_per_year = 0

\* C7: when no name of the directory both ends in .html and contains today's
\* date token, no file is opened and the output file is as it was at the
\* start: an absent file stays absent.
C7_NoMatchNoOutput ==
    NoFileMatches =>
        (attempted = {} /\ exists = init_exists /\ lines = init_lines)

C7_Witness ==
    /\ pc = "done"
    /\ Len(dir) = 2
    /\ dir[1].html /\ ~dir[1].today
    /\ dir[2].today /\ ~dir[2].html
    /\ ~exists

\* C8 as stated: with the debug flag set, the introspection is performed
\* at most once in a run, and by the end of a run that processed a non-empty
\* category exactly once, on the first non-empty category processed.
C8_IntrospectFirstBatchOnce ==
    run_debug =>
        /\ Len(introspected) <= 1
        /\ (pc = "done" /\ first_batch # <<>>) => introspected = <<first_batch>>

\* C9: the output file is opened in mode 'w' exactly when it does not exist
\* at that moment, and once the file exists every step keeps it and keeps
\* its lines as a prefix of its lines after the step.
C9_ExistingFileOnlyGrows ==
    [][ /\ (pc = "pvd_open" => ((mode = "w") <=> ~exists))
        /\ (exists => (exists' /\ IsPrefix(lines, lines'))) ]_vars

C9_Witness ==
    /\ pc = "done"
    /\ init_exists
    /\ failed # {}
    /\ completed # {}
    /\ Len(lines) > Len(init_lines)
    /\ IsPrefix(init_lines, lines)

\* C10 as stated: every call of process_vehicle_data that returns has
\* reported a success count equal to the number of rows it appended.
C10_Original ==
    pc = "returned" => reported = <<RowsAppended>>

\* C10 as amended: a call of process_vehicle_data that returns has reported
\* a success count equal to the number of rows it appended when it appended
\* at least one, and has reported no count when it appended none.
C10_ReportedCount ==
    pc = "returned" =>
        /\ processed_count = RowsAppended
        /\ IF RowsAppended > 0 THEN reported = <<RowsAppended>> ELSE reported = <<>>

C10_Witness ==
    /\ pc = "returned"
    /\ json_list # <<>>
    /\ RowsAppended = 0
    /\ reported = <<>>

====
